---- MODULE Spec2Model ----
(***************************************************************************)
(* Request-lifecycle primitives of the Changerawr React SDK.               *)
(*                                                                         *)
(* One hook instance is modelled at a time (variable hook).  Every action  *)
(* is one handler, prop change or promise continuation, together with the  *)
(* render it causes and the effects that render runs.  The state updates   *)
(* of one handler or continuation are applied as one batch (React 18       *)
(* automatic batching); handlers are those of the latest committed render. *)
(* tags are compared by content.                                           *)
(***************************************************************************)
EXTENDS Integers, Sequences, FiniteSets, TLC

\* ------------------------------------------------------------------ bounds
MaxRequests == 4        \* requests one hook instance issues in a behaviour
MaxReadRequests == 3    \* requests an offset-list or single-item hook issues
MaxFilterRequests == 3  \* the same, in behaviours that change filters or projectId
MaxMutationRequests == 3 \* requests a mutation hook issues
MaxClients  == 2        \* constructor calls of one provider
MaxWidgetCalls == 4     \* getWidgetScript calls of one useWidgetScript
MaxSubmits  == 3        \* submissions of one SubscriptionForm
MaxInitialTags == 2     \* length of the initialSelectedTags option
ChainLen    == 3        \* pages of the server's cursor chain
PageSize    == 2        \* items the server returns per page (N)
ServerPages == 2        \* totalPages the server reports for an offset list

\* ------------------------------------------------------------- value domain
Undefined     == "undefined"      \* absent string-valued prop or option
Null          == "null"           \* error === null, data === null
NoCursor      == 0                \* nextCursor === undefined
UndefinedTags == <<>>             \* tags === undefined

ProjectIds   == {"p1", "p2"}
SearchValues == {"a"}
TagValues    == {<<"t1">>}
SortValues   == {"newest", "oldest"}
Cursors      == 2..ChainLen       \* cursor k: the next page is page k

ProjectIdRequired == "Project ID is required"
TransportErrors   == {"NetworkError"}

VARIABLES
    hook,            \* which primitive this instance is
    phase,           \* "rendered": first render done, effects pending;
                     \* "live": mounted; "gone": unmounted
    isMounted,       \* isMounted.current
    projectId,       \* prop
    enableAutoLoad,  \* option
    search, tags, sort,                 \* filter state
    entries, nextCursor,                \* accumulated sequence and cursor
    isLoading, isLoadingMore, error,
    entryId, skip,                      \* prop and option of the other read hooks
    page, data, total, totalPages,      \* their pagination and data state
    inflight,        \* requests dispatched and not yet settled
    requestCap,      \* requests this behaviour may dispatch
    nextId,          \* id the next dispatched request gets (dispatch order)
    maxApplied,      \* highest id among the requests whose response wrote state
    traceCalls,      \* whether this behaviour records lastCall
    lastCall,        \* the handler or continuation that ran last
    isSuccess, message, recipientCount, \* state of the mutation hooks
    returned,        \* what the trigger invocation that completed last returned
    config,          \* the ChangerawrClientConfig a client is constructed from
    axiosDefaults,   \* timeout and default headers of the client's axios instance
    failure,         \* the value the transport rejected a request with
    thrown,          \* the value that is propagating to the caller
    errStage,        \* where that value is on its way to the caller
    clientRef,       \* clientRef.current of ChangerawrProvider
    contextValue,    \* the memoised value the provider hands to its consumers
    selectedTags, multiSelect,          \* state and option of useTagFilter
    email,           \* form state of SubscriptionForm
    onSuccessCalls, onErrorCalls,       \* invocations of its callback props
    widgetParams,    \* the params argument of getWidgetScript
    script,          \* the query parameters of the script URL it returned
    rendered         \* the state of useWidgetScript as of its last commit

vars == <<hook, phase, isMounted, projectId, enableAutoLoad, search, tags, sort,
          entries, nextCursor, isLoading, isLoadingMore, error,
          entryId, skip, page, data, total, totalPages,
          inflight, requestCap, nextId, maxApplied,
          traceCalls, lastCall,
          isSuccess, message, recipientCount, returned,
          config, axiosDefaults, failure, thrown, errStage,
          clientRef, contextValue, selectedTags, multiSelect,
          email, onSuccessCalls, onErrorCalls, widgetParams, script, rendered>>

\* state only the other read hooks use, and state only useChangelog uses
readState      == <<entryId, skip, page, data, total, totalPages>>
changelogState == <<enableAutoLoad, tags, sort, entries, nextCursor, isLoadingMore>>
\* state only the mutation hooks use, and the state of a client on its own
mutationState  == <<isSuccess, message, recipientCount, returned>>
clientState    == <<config, axiosDefaults, failure, thrown, errStage>>
\* state of the provider, of useTagFilter, of SubscriptionForm and of getWidgetScript
uiState        == <<clientRef, contextValue, selectedTags, multiSelect,
                    email, onSuccessCalls, onErrorCalls, widgetParams, script, rendered>>

\* ------------------------------------------------------------ error values
\* A JavaScript value that can be thrown: type is its typeof (with null
\* apart), isError is instanceof Error, name the class of a ChangerawrError,
\* ref the identity of the object and cause the identity of the object it
\* wraps.
NoStatus   == 0                   \* status === undefined
NoRef      == 0                   \* cause === undefined
Codes      == {Undefined, "ECONNABORTED", "ECONNREFUSED", "ENOTFOUND", "ERR_BAD_REQUEST"}
Statuses   == {200, 302, 400, 401, 403, 404, 422, 499, 500, 503}
NoResponse == [present |-> FALSE, status |-> NoStatus, error |-> Undefined,
               details |-> Undefined]
Responses  == [present : {TRUE}, status : Statuses,
               error : {Undefined, "", "forbidden"}, details : {Undefined, "d"}]

Value(type, isError, name, code, response, msg, status, details, ref, cause) ==
    [type |-> type, isError |-> isError, name |-> name, code |-> code,
     response |-> response, message |-> msg, status |-> status,
     details |-> details, ref |-> ref, cause |-> cause]

\* what a transport or any other code can reject with: objects (Error
\* instances always carry a message, other objects may) and non-objects
RawFailures ==
    { Value("object", e, Undefined, c, r, m, NoStatus, Undefined, 1, NoRef) :
        e \in BOOLEAN, c \in Codes, r \in {NoResponse} \cup Responses,
        m \in {"", "boom"} }
    \cup { Value("object", FALSE, Undefined, c, r, Undefined, NoStatus, Undefined, 1, NoRef) :
        c \in Codes, r \in {NoResponse} \cup Responses }
    \cup { Value(ty, FALSE, Undefined, Undefined, NoResponse, Undefined, NoStatus,
                 Undefined, 1, NoRef) : ty \in {"string", "null", "undefined"} }

NoValue == Value("undefined", FALSE, Undefined, Undefined, NoResponse, Undefined,
                 NoStatus, Undefined, NoRef, NoRef)

\* new ChangerawrError(message, { cause, status, details }) and its subclasses
ChangerawrError(name, msg, cause, status, details) ==
    Value("object", TRUE, name, Undefined, NoResponse, msg, status, details,
          cause.ref + 1, cause.ref)

\* x || fallback on an optional string
OrElse(x, fallback) == IF x \in {Undefined, ""} THEN fallback ELSE x

Fallback(err) ==
    ChangerawrError("ChangerawrError",
                    IF err.isError THEN err.message ELSE "Unknown error",
                    err, NoStatus, Undefined)

\* the block under if (err.response): classification by HTTP status
HandleResponse_forbiddenAsRequest(err) ==
    LET status == err.response.status
        body   == err.response    \* err.response.data
    IN IF status = 401
       THEN ChangerawrError("ChangerawrAuthError",
                            OrElse(body.error, "Authentication failed"),
                            err, status, body.details)
       ELSE IF status >= 400 /\ status < 500
       THEN ChangerawrError("ChangerawrRequestError",
                            OrElse(body.error, "Invalid request"),
                            err, status, body.details)
       ELSE IF status >= 500
       THEN ChangerawrError("ChangerawrServerError",
                            OrElse(body.error, "Server error"),
                            err, status, body.details)
       ELSE Fallback(err)

HandleResponse(err) ==
    LET status == err.response.status
        body   == err.response    \* err.response.data
    IN IF status = 401 \/ status = 403
       THEN ChangerawrError("ChangerawrAuthError",
                            OrElse(body.error, "Authentication failed"),
                            err, status, body.details)
       ELSE IF status >= 400 /\ status < 500
       THEN ChangerawrError("ChangerawrRequestError",
                            OrElse(body.error, "Invalid request"),
                            err, status, body.details)
       ELSE IF status >= 500
       THEN ChangerawrError("ChangerawrServerError",
                            OrElse(body.error, "Server error"),
                            err, status, body.details)
       ELSE Fallback(err)

parseApiError_responseFirst(err) ==
    IF err.type = "object"
    THEN IF err.response.present /\ err.response.status >= 400
         THEN HandleResponse(err)
         ELSE IF err.code = "ECONNABORTED"
         THEN ChangerawrError("ChangerawrTimeoutError", "Request timed out",
                              err, NoStatus, Undefined)
         ELSE IF err.code \in {"ECONNREFUSED", "ENOTFOUND"}
         THEN ChangerawrError("ChangerawrNetworkError", "Failed to connect to API",
                              err, NoStatus, Undefined)
         ELSE Fallback(err)
    ELSE Fallback(err)

parseApiError(err) ==
    IF err.type = "object"
    THEN IF err.code = "ECONNABORTED"
         THEN ChangerawrError("ChangerawrTimeoutError", "Request timed out",
                              err, NoStatus, Undefined)
         ELSE IF err.code \in {"ECONNREFUSED", "ENOTFOUND"}
         THEN ChangerawrError("ChangerawrNetworkError", "Failed to connect to API",
                              err, NoStatus, Undefined)
         ELSE IF err.response.present
         THEN HandleResponse(err)
         ELSE Fallback(err)
    ELSE Fallback(err)

\* the variables of the mutation hooks and of the client, where unused
NoConfig == [apiUrl |-> Undefined, projectId |-> Undefined, apiKey |-> Undefined,
             auth |-> [type |-> Undefined, token |-> Undefined], timeout |-> 0]
NoDefaults == [timeout |-> 0, Authorization |-> <<>>]

MutationIdle ==
    /\ isSuccess = FALSE /\ message = Null /\ recipientCount = 0   \* null
    /\ returned = "none"

ClientIdle ==
    /\ config = NoConfig /\ axiosDefaults = NoDefaults
    /\ failure = NoValue /\ thrown = NoValue /\ errStage = "idle"

\* clientRef.current === null, and the other variables where unused
NoClient == [gen |-> 0, config |-> NoConfig]
NoContext == [client |-> NoClient, config |-> NoConfig, projectId |-> Undefined,
              error |-> Null]
NoNumber == -1                    \* an absent number-valued field
NoParams == [theme |-> Undefined, position |-> Undefined, maxHeight |-> Undefined,
             isPopup |-> Undefined, trigger |-> Undefined, maxEntries |-> NoNumber]

\* script === null, and the committed state of a hook that has not rendered
NoScript == <<[name |-> "null", value |-> "null"]>>
NoRender == [script |-> NoScript, isLoading |-> FALSE, error |-> Null]

UiIdle ==
    /\ clientRef = NoClient /\ contextValue = NoContext
    /\ selectedTags = <<>> /\ multiSelect = TRUE
    /\ email = "" /\ onSuccessCalls = 0 /\ onErrorCalls = 0
    /\ widgetParams = NoParams /\ script = <<>> /\ rendered = NoRender

\* ------------------------------------------------------------ remote server
\* GET /changelog/{projectId}/entries: page k of the chain selected by the
\* request's project and filters; the last page carries no cursor.
PageOf(req) == IF req.cursor = NoCursor THEN 1 ELSE req.cursor

getChangelog(req) ==
    LET k == PageOf(req)
    IN [items |-> [i \in 1..PageSize |->
                      [projectId |-> req.projectId, search |-> req.search,
                       tags |-> req.tags, sort |-> req.sort,
                       page |-> k, idx |-> i]],
        nextCursor |-> IF k < ChainLen THEN k + 1 ELSE NoCursor]

\* --------------------------------------------------------------- useChangelog
\* the values one render of useChangelog sees
Render == [projectId |-> projectId, search |-> search, tags |-> tags, sort |-> sort,
           entries |-> entries, nextCursor |-> nextCursor, isLoading |-> isLoading,
           isLoadingMore |-> isLoadingMore, error |-> error]


\* fetchEntries up to its await.  c: the render whose closure runs; s: the
\* pending state its updates apply to; id: the id of the request it dispatches.
fetchEntries(c, s, isInitialFetch, id) ==
    IF c.projectId = Undefined
    THEN [s    |-> IF isMounted THEN [s EXCEPT !.error = ProjectIdRequired] ELSE s,
          reqs |-> {}]
    ELSE [s    |-> IF ~isMounted THEN s
                   ELSE IF isInitialFetch THEN [s EXCEPT !.isLoading = TRUE]
                   ELSE [s EXCEPT !.isLoadingMore = TRUE],
          reqs |-> {[id |-> id, initial |-> isInitialFetch,
                     projectId |-> c.projectId,
                     cursor |-> IF isInitialFetch THEN NoCursor ELSE c.nextCursor,
                     search |-> c.search, tags |-> c.tags, sort |-> c.sort]}]

fetchNextPage_unguarded(c, s, id) == fetchEntries(c, s, FALSE, id)

fetchNextPage(c, s, id) ==
    IF c.nextCursor # NoCursor
    THEN fetchEntries(c, s, FALSE, id)
    ELSE [s |-> s, reqs |-> {}]

refetch(c, s, id) == fetchEntries(c, s, TRUE, id)

ResetEffect_keepsCursor(prev, c, s, mounting, id) ==
    IF /\ mounting \/ <<prev.projectId, prev.search, prev.tags, prev.sort>>
                        # <<c.projectId, c.search, c.tags, c.sort>>
       /\ c.projectId # Undefined
    THEN fetchEntries(c, [s EXCEPT !.entries = <<>>, !.error = Null], TRUE, id)
    ELSE [s |-> s, reqs |-> {}]

\* "Reset state when projectId or filters change"
ResetEffect(prev, c, s, mounting, id) ==
    IF /\ mounting \/ <<prev.projectId, prev.search, prev.tags, prev.sort>>
                        # <<c.projectId, c.search, c.tags, c.sort>>
       /\ c.projectId # Undefined
    THEN fetchEntries(c, [s EXCEPT !.entries = <<>>, !.nextCursor = NoCursor,
                                   !.error = Null], TRUE, id)
    ELSE [s |-> s, reqs |-> {}]

\* "Auto-load functionality"; fetchNextPage is a new function whenever
\* nextCursor, projectId or a filter changed
AutoLoadEffect(prev, c, s, mounting, id) ==
    IF /\ mounting \/ <<prev.nextCursor, prev.isLoading, prev.isLoadingMore, prev.error,
                         prev.projectId, prev.search, prev.tags, prev.sort>>
                        # <<c.nextCursor, c.isLoading, c.isLoadingMore, c.error,
                            c.projectId, c.search, c.tags, c.sort>>
       /\ enableAutoLoad /\ c.nextCursor # NoCursor
       /\ ~c.isLoading /\ ~c.isLoadingMore /\ c.error = Null
    THEN fetchNextPage(c, s, id)
    ELSE [s |-> s, reqs |-> {}]

\* the effects of the render that shows c, in declaration order; prev is the
\* render before it.  The render that follows changes no dependency of the
\* reset effect and shows a loading flag or an error or no cursor whenever an
\* effect acted, so it runs no fetch.
RunEffects(prev, c, mounting) ==
    LET r1 == ResetEffect(prev, c, c, mounting, nextId)
        r2 == AutoLoadEffect(prev, c, r1.s, mounting, nextId + Cardinality(r1.reqs))
    IN [s |-> r2.s, reqs |-> r1.reqs \cup r2.reqs]

Commit(out, call) ==
    /\ nextId + Cardinality(out.reqs) <= requestCap + 1
    /\ projectId' = out.s.projectId
    /\ search' = out.s.search
    /\ tags' = out.s.tags
    /\ sort' = out.s.sort
    /\ entries' = out.s.entries
    /\ nextCursor' = out.s.nextCursor
    /\ isLoading' = out.s.isLoading
    /\ isLoadingMore' = out.s.isLoadingMore
    /\ error' = out.s.error
    /\ inflight' = inflight \cup out.reqs
    /\ nextId' = nextId + Cardinality(out.reqs)
    /\ lastCall' = (IF traceCalls THEN call ELSE lastCall)

\* first commit: every effect runs
ChangelogMount ==
    /\ hook = "useChangelog" /\ phase = "rendered"
    /\ phase' = "live"
    /\ isMounted' = TRUE
    /\ Commit(RunEffects(Render, Render, TRUE), "mount")
    /\ UNCHANGED <<hook, enableAutoLoad, requestCap, traceCalls, maxApplied, readState, mutationState, clientState, uiState>>

ChangelogUnmount ==
    /\ hook = "useChangelog" /\ phase = "live"
    /\ phase' = "gone"
    /\ isMounted' = FALSE
    /\ lastCall' = (IF traceCalls THEN "unmount" ELSE lastCall)
    /\ UNCHANGED <<hook, projectId, enableAutoLoad, search, tags, sort, entries,
                   nextCursor, isLoading, isLoadingMore, error, inflight, nextId,
                   requestCap, traceCalls, maxApplied, readState, mutationState, clientState, uiState>>

\* a handler or prop change that leaves the render c to be committed
Rerender(c, call) ==
    /\ Commit(RunEffects(Render, c, FALSE), call)
    /\ UNCHANGED <<hook, phase, isMounted, enableAutoLoad, requestCap, traceCalls, maxApplied,
                   readState, mutationState, clientState, uiState>>

\* the parent renders the hook with another projectId
ChangelogSetProjectId ==
    /\ hook = "useChangelog" /\ phase = "live"
    /\ \E p \in (ProjectIds \cup {Undefined}) \ {projectId} :
          Rerender([Render EXCEPT !.projectId = p], "setProjectId")

\* the Partial<UseChangelogOptions> values the consumer passes to setFilters
NewFilters ==
    { [search |-> "a",       tags |-> UndefinedTags, sort |-> Undefined],
      [search |-> Undefined, tags |-> <<"t1">>,      sort |-> Undefined],
      [search |-> Undefined, tags |-> UndefinedTags, sort |-> "oldest"],
      [search |-> "a",       tags |-> <<"t1">>,      sort |-> "oldest"] }

setFilters(s, newFilters) ==
    [s EXCEPT !.search = IF newFilters.search # Undefined THEN newFilters.search ELSE @,
              !.tags   = IF newFilters.tags # UndefinedTags THEN newFilters.tags ELSE @,
              !.sort   = IF newFilters.sort # Undefined THEN newFilters.sort ELSE @]

ChangelogSetFilters ==
    /\ hook = "useChangelog" /\ phase = "live"
    /\ \E newFilters \in NewFilters :
          Rerender(setFilters(Render, newFilters), "setFilters")

\* a handler that runs a fetch function of the latest render
Handler(out, call) ==
    /\ Commit(LET e == RunEffects(Render, out.s, FALSE)
              IN [s |-> e.s, reqs |-> out.reqs \cup e.reqs], call)
    /\ UNCHANGED <<hook, phase, isMounted, enableAutoLoad, requestCap, traceCalls, maxApplied,
                   readState, mutationState, clientState, uiState>>

ChangelogFetchNextPage ==
    /\ hook = "useChangelog" /\ phase = "live"
    /\ Handler(fetchNextPage(Render, Render, nextId), "fetchNextPage")

ChangelogRefetch ==
    /\ hook = "useChangelog" /\ phase = "live"
    /\ Handler(refetch(Render, Render, nextId), "refetch")

fetchEntriesResolved_unguarded(s, req) ==
    LET response == getChangelog(req)
    IN [s EXCEPT !.entries = IF req.initial THEN response.items
                               ELSE @ \o response.items,
                 !.nextCursor = response.nextCursor,
                 !.error = Null,
                 !.isLoading = FALSE,
                 !.isLoadingMore = FALSE]

\* fetchEntries after its await resolved: success branch and finally
fetchEntriesResolved(s, req) ==
    LET response == getChangelog(req)
    IN IF ~isMounted THEN s
       ELSE [s EXCEPT !.entries = IF req.initial THEN response.items
                                  ELSE @ \o response.items,
                      !.nextCursor = response.nextCursor,
                      !.error = Null,
                      !.isLoading = FALSE,
                      !.isLoadingMore = FALSE]

fetchEntriesRejected_clears(s, err) ==
    IF ~isMounted THEN s
    ELSE [s EXCEPT !.error = err, !.entries = <<>>, !.nextCursor = NoCursor,
                   !.isLoading = FALSE, !.isLoadingMore = FALSE]

\* fetchEntries after its await rejected: catch and finally
fetchEntriesRejected(s, err) ==
    IF ~isMounted THEN s
    ELSE [s EXCEPT !.error = err, !.isLoading = FALSE, !.isLoadingMore = FALSE]

Settle(req, s, call) ==
    /\ inflight' = (inflight \ {req}) \cup
                   (IF isMounted THEN RunEffects(Render, s, FALSE).reqs ELSE {})
    /\ LET out == IF isMounted THEN RunEffects(Render, s, FALSE)
                  ELSE [s |-> s, reqs |-> {}]
       IN /\ nextId + Cardinality(out.reqs) <= requestCap + 1
          /\ projectId' = out.s.projectId
          /\ search' = out.s.search
          /\ tags' = out.s.tags
          /\ sort' = out.s.sort
          /\ entries' = out.s.entries
          /\ nextCursor' = out.s.nextCursor
          /\ isLoading' = out.s.isLoading
          /\ isLoadingMore' = out.s.isLoadingMore
          /\ error' = out.s.error
          /\ nextId' = nextId + Cardinality(out.reqs)
    /\ maxApplied' = IF isMounted /\ req.id > maxApplied THEN req.id ELSE maxApplied
    /\ lastCall' = (IF traceCalls THEN call ELSE lastCall)
    /\ UNCHANGED <<hook, phase, isMounted, enableAutoLoad, requestCap, traceCalls, readState, mutationState, clientState, uiState>>

ChangelogResolve ==
    /\ hook = "useChangelog"
    /\ \E req \in inflight :
          Settle(req, fetchEntriesResolved(Render, req),
                 IF req.initial THEN "resolvedInitial" ELSE "resolvedNextPage")

ChangelogReject ==
    /\ hook = "useChangelog"
    /\ \E req \in inflight : \E err \in TransportErrors :
          Settle(req, fetchEntriesRejected(Render, err),
                 IF req.initial THEN "rejectedInitial" ELSE "rejectedNextPage")

InitialCursors == {NoCursor, 2}

ChangelogInit ==
    /\ hook = "useChangelog"
    /\ phase = "rendered"
    /\ isMounted = TRUE
    /\ search = Undefined /\ tags = UndefinedTags /\ sort = "newest"
    /\ entries = <<>>
    /\ isLoading = FALSE /\ isLoadingMore = FALSE /\ error = Null
    /\ inflight = {}
    /\ nextId = 1
    /\ maxApplied = 0
    /\ lastCall = "render"
    /\ entryId = Undefined /\ skip = FALSE /\ page = 1
    /\ data = <<>> /\ total = 0 /\ totalPages = 0
    /\ MutationIdle /\ ClientIdle /\ UiIdle

\* pagination under fixed props and filters, driven by the consumer
PagingInit ==
    /\ ChangelogInit
    /\ requestCap = MaxRequests
    /\ traceCalls = TRUE
    /\ projectId = "p1"
    /\ enableAutoLoad = FALSE
    /\ nextCursor = NoCursor

PagingNext ==
    \/ ChangelogMount
    \/ ChangelogUnmount
    \/ ChangelogFetchNextPage
    \/ ChangelogRefetch
    \/ ChangelogResolve
    \/ ChangelogReject

SpecPaging == PagingInit /\ [][PagingNext]_vars

\* fetchNextPage calls only
NextPagesNext ==
    \/ ChangelogMount
    \/ ChangelogFetchNextPage
    \/ ChangelogResolve
    \/ ChangelogReject

NextPagesInit ==
    /\ ChangelogInit
    /\ requestCap = MaxRequests
    /\ traceCalls = TRUE
    /\ projectId \in ProjectIds
    /\ enableAutoLoad = FALSE
    /\ nextCursor = NoCursor

SpecNextPages == NextPagesInit /\ [][NextPagesNext]_vars

\* filter and projectId changes
FiltersInit ==
    /\ ChangelogInit
    /\ requestCap = MaxFilterRequests
    /\ traceCalls = FALSE
    /\ projectId \in ProjectIds \cup {Undefined}
    /\ enableAutoLoad \in BOOLEAN
    /\ nextCursor \in InitialCursors

FiltersNext ==
    \/ ChangelogMount
    \/ ChangelogSetProjectId
    \/ ChangelogSetFilters
    \/ ChangelogFetchNextPage
    \/ ChangelogResolve
    \/ ChangelogReject

SpecFilters == FiltersInit /\ [][FiltersNext]_vars

\* auto-load with no consumer call
AutoLoadInit ==
    /\ ChangelogInit
    /\ requestCap = MaxRequests
    /\ traceCalls = TRUE
    /\ projectId \in ProjectIds \cup {Undefined}
    /\ enableAutoLoad = TRUE
    /\ nextCursor \in InitialCursors

AutoLoadNext ==
    \/ ChangelogMount
    \/ ChangelogUnmount
    \/ ChangelogResolve
    \/ ChangelogReject

SpecAutoLoad == AutoLoadInit /\ [][AutoLoadNext]_vars

\* ------------------------------------------- offset-list and single-item hooks
ListHooks   == {"useTags", "useSubscribers", "useProjects"}
ItemHooks   == {"useProject", "useChangelogEntry", "useEmailConfig"}
ReadHooks   == ListHooks \cup ItemHooks
EntryIds    == {"e1"}
ListSearches == {"", "a"}
InitialPages == {1, 2}            \* the page option of an offset-list hook

\* data === null of a single-item hook
NoData == [projectId |-> Undefined, entryId |-> Undefined, rev |-> 0]

\* the values one render of an offset-list or single-item hook sees
ReadRender == [projectId |-> projectId, entryId |-> entryId, skip |-> skip,
               page |-> page, search |-> search, data |-> data, total |-> total,
               totalPages |-> totalPages, isLoading |-> isLoading, error |-> error]

ReadRequest(c, id) == [id |-> id, projectId |-> c.projectId, entryId |-> c.entryId,
                       page |-> c.page, search |-> c.search]

\* the offset page the server returns for a list request
getList(req) ==
    [items |-> <<[projectId |-> req.projectId, page |-> req.page, search |-> req.search]>>,
     pagination |-> [total |-> ServerPages, totalPages |-> ServerPages]]

\* the item the server returns for a single-item request, as of that request
getItem(req) == [projectId |-> req.projectId, entryId |-> req.entryId, rev |-> req.id]

setIsLoadingIfMounted(s) == IF isMounted THEN [s EXCEPT !.isLoading = TRUE] ELSE s

fetchTags(c, s, id) ==
    IF c.projectId = Undefined \/ c.skip THEN [s |-> s, reqs |-> {}]
    ELSE [s |-> setIsLoadingIfMounted(s), reqs |-> {ReadRequest(c, id)}]

\* validateProjectId throws before the request: catch and finally run at once
fetchSubscribers(c, s, id) ==
    IF c.skip THEN [s |-> s, reqs |-> {}]
    ELSE IF c.projectId = Undefined
    THEN [s |-> IF isMounted
                THEN [s EXCEPT !.error = ProjectIdRequired, !.isLoading = FALSE]
                ELSE s,
          reqs |-> {}]
    ELSE [s |-> setIsLoadingIfMounted(s), reqs |-> {ReadRequest(c, id)}]

fetchProjects(c, s, id) ==
    IF c.skip THEN [s |-> s, reqs |-> {}]
    ELSE [s |-> setIsLoadingIfMounted(s), reqs |-> {ReadRequest(c, id)}]

fetchProject(c, s, id) ==
    IF c.projectId = Undefined \/ c.skip THEN [s |-> s, reqs |-> {}]
    ELSE [s |-> setIsLoadingIfMounted(s), reqs |-> {ReadRequest(c, id)}]

fetchEntry(c, s, id) ==
    IF c.projectId = Undefined \/ c.entryId = Undefined \/ c.skip
    THEN [s |-> s, reqs |-> {}]
    ELSE [s |-> setIsLoadingIfMounted(s), reqs |-> {ReadRequest(c, id)}]

\* setIsLoading(true) is not guarded by isMounted here
fetchEmailConfig(c, s, id) ==
    IF c.projectId = Undefined
    THEN [s |-> IF isMounted
                THEN [s EXCEPT !.error = ProjectIdRequired, !.isLoading = FALSE]
                ELSE [s EXCEPT !.isLoading = TRUE],
          reqs |-> {}]
    ELSE [s |-> [s EXCEPT !.isLoading = TRUE], reqs |-> {ReadRequest(c, id)}]

\* the fetch function of the mounted hook
Fetch(c, s, id) ==
    CASE hook = "useTags"           -> fetchTags(c, s, id)
      [] hook = "useSubscribers"    -> fetchSubscribers(c, s, id)
      [] hook = "useProjects"       -> fetchProjects(c, s, id)
      [] hook = "useProject"        -> fetchProject(c, s, id)
      [] hook = "useChangelogEntry" -> fetchEntry(c, s, id)
      [] hook = "useEmailConfig"    -> fetchEmailConfig(c, s, id)

\* the fetch effect of each hook; its dependencies are the identifiers, page
\* and search the hook has (the others never change for that hook)
FetchEffect_ignoresPage(prev, c, mounting, id) ==
    IF ~(mounting \/ <<prev.projectId, prev.entryId, prev.search>>
                       # <<c.projectId, c.entryId, c.search>>)
    THEN [s |-> c, reqs |-> {}]
    ELSE IF hook \in {"useSubscribers", "useEmailConfig"} /\ c.projectId = Undefined
    THEN [s |-> c, reqs |-> {}]
    ELSE Fetch(c, c, id)

FetchEffect(prev, c, mounting, id) ==
    IF ~(mounting \/ <<prev.projectId, prev.entryId, prev.page, prev.search>>
                       # <<c.projectId, c.entryId, c.page, c.search>>)
    THEN [s |-> c, reqs |-> {}]
    ELSE IF hook \in {"useSubscribers", "useEmailConfig"} /\ c.projectId = Undefined
    THEN [s |-> c, reqs |-> {}]
    ELSE Fetch(c, c, id)

\* a list fetch after its await resolved: success branch and finally
listResolved(s, req) ==
    LET response == getList(req)
    IN IF ~isMounted THEN s
       ELSE [s EXCEPT !.data = response.items,
                      !.total = response.pagination.total,
                      !.totalPages = response.pagination.totalPages,
                      !.error = Null,
                      !.isLoading = FALSE]

\* a single-item fetch after its await resolved
itemResolved(s, req) ==
    IF ~isMounted THEN s
    ELSE [s EXCEPT !.data = getItem(req), !.error = Null, !.isLoading = FALSE]

\* catch and finally of every hook but useProject
fetchRejected(s, err) ==
    IF ~isMounted THEN s
    ELSE [s EXCEPT !.error = err, !.isLoading = FALSE]

\* catch and finally of useProject.fetchProject
fetchProjectRejected(s, err) ==
    IF ~isMounted THEN s
    ELSE [s EXCEPT !.error = err, !.data = NoData, !.isLoading = FALSE]

ReadCommit(out, call) ==
    /\ nextId + Cardinality(out.reqs) <= requestCap + 1
    /\ projectId' = out.s.projectId
    /\ entryId' = out.s.entryId
    /\ skip' = out.s.skip
    /\ page' = out.s.page
    /\ search' = out.s.search
    /\ data' = out.s.data
    /\ total' = out.s.total
    /\ totalPages' = out.s.totalPages
    /\ isLoading' = out.s.isLoading
    /\ error' = out.s.error
    /\ nextId' = nextId + Cardinality(out.reqs)
    /\ lastCall' = (IF traceCalls THEN call ELSE lastCall)
    /\ UNCHANGED <<hook, requestCap, traceCalls, changelogState, tags, sort,
                   mutationState, clientState, uiState>>

ReadMount ==
    /\ hook \in ReadHooks /\ phase = "rendered"
    /\ phase' = "live"
    /\ isMounted' = TRUE
    /\ LET out == FetchEffect(ReadRender, ReadRender, TRUE, nextId)
       IN ReadCommit(out, "mount") /\ inflight' = inflight \cup out.reqs
    /\ UNCHANGED maxApplied

ReadUnmount ==
    /\ hook \in ReadHooks /\ phase = "live"
    /\ phase' = "gone"
    /\ isMounted' = FALSE
    /\ lastCall' = (IF traceCalls THEN "unmount" ELSE lastCall)
    /\ UNCHANGED <<hook, projectId, search, isLoading, error, readState, changelogState,
                   mutationState, clientState, uiState,
                   inflight, requestCap, nextId, maxApplied, traceCalls>>

\* a prop change or state setter that leaves the render c to be committed
ReadRerender(c, call) ==
    /\ LET out == FetchEffect(ReadRender, c, FALSE, nextId)
       IN ReadCommit(out, call) /\ inflight' = inflight \cup out.reqs
    /\ UNCHANGED <<phase, isMounted, maxApplied>>

ReadSetProjectId ==
    /\ hook \in ReadHooks \ {"useProjects"} /\ phase = "live"
    /\ \E p \in (ProjectIds \cup {Undefined}) \ {projectId} :
          ReadRerender([ReadRender EXCEPT !.projectId = p], "setProjectId")

ReadSetEntryId ==
    /\ hook = "useChangelogEntry" /\ phase = "live"
    /\ \E e \in (EntryIds \cup {Undefined}) \ {entryId} :
          ReadRerender([ReadRender EXCEPT !.entryId = e], "setEntryId")

Max(a, b) == IF a > b THEN a ELSE b
Min(a, b) == IF a < b THEN a ELSE b

\* useTags and useSubscribers: Math.max(1, Math.min(newPage, totalPages));
\* useProjects: Math.max(1, Math.min(newPage, totalPages || 1))
goToPage_noUpperBound(s, newPage) ==
    [s EXCEPT !.page = Max(1, newPage)]

goToPage(s, newPage) ==
    [s EXCEPT !.page =
        IF hook = "useProjects"
        THEN Max(1, Min(newPage, IF s.totalPages # 0 THEN s.totalPages ELSE 1))
        ELSE Max(1, Min(newPage, s.totalPages))]

\* the arguments the consumer passes to goToPage, and the name of such a call
PageArgs == 0..(ServerPages + 1)
GoToPageCall(newPage) == "goToPage(" \o ToString(newPage) \o ")"

ReadGoToPage ==
    /\ hook \in ListHooks /\ phase = "live"
    /\ \E newPage \in PageArgs :
          ReadRerender(goToPage(ReadRender, newPage), GoToPageCall(newPage))

handleSetSearch(s, newSearch) == [s EXCEPT !.search = newSearch, !.page = 1]

ReadSetSearch ==
    /\ hook \in {"useTags", "useSubscribers"} /\ phase = "live"
    /\ \E newSearch \in ListSearches :
          ReadRerender(handleSetSearch(ReadRender, newSearch), "setSearch")

\* refetch of the latest render
ReadRefetch ==
    /\ hook \in ReadHooks /\ phase = "live"
    /\ LET out == Fetch(ReadRender, ReadRender, nextId)
       IN ReadCommit(out, "refetch") /\ inflight' = inflight \cup out.reqs
    /\ UNCHANGED <<phase, isMounted, maxApplied>>

\* a continuation changes no dependency of the fetch effect
ReadSettle(req, s, call) ==
    /\ ReadCommit([s |-> s, reqs |-> {}], call)
    /\ inflight' = inflight \ {req}
    /\ maxApplied' = IF isMounted /\ req.id > maxApplied THEN req.id ELSE maxApplied
    /\ UNCHANGED <<phase, isMounted>>

ReadResolve ==
    /\ hook \in ReadHooks
    /\ \E req \in inflight :
          ReadSettle(req,
                     IF hook \in ListHooks THEN listResolved(ReadRender, req)
                     ELSE itemResolved(ReadRender, req),
                     "resolved")

ReadReject ==
    /\ hook \in ReadHooks
    /\ \E req \in inflight : \E err \in TransportErrors :
          ReadSettle(req,
                     IF hook = "useProject" THEN fetchProjectRejected(ReadRender, err)
                     ELSE fetchRejected(ReadRender, err),
                     "rejected")

\* useState initial values of each hook, for the given page options
ReadInitWith(initialPages) ==
    /\ hook \in ReadHooks
    /\ phase = "rendered"
    /\ isMounted = TRUE
    /\ projectId \in IF hook = "useProjects" THEN {Undefined}
                     ELSE ProjectIds \cup {Undefined}
    /\ entryId \in IF hook = "useChangelogEntry" THEN EntryIds \cup {Undefined}
                   ELSE {Undefined}
    /\ skip \in IF hook = "useEmailConfig" THEN {FALSE} ELSE BOOLEAN
    /\ page \in IF hook \in ListHooks THEN initialPages ELSE {1}
    /\ search = IF hook \in {"useTags", "useSubscribers"} THEN "" ELSE Undefined
    /\ data = IF hook \in ListHooks THEN <<>> ELSE NoData
    /\ total = 0 /\ totalPages = 0
    /\ isLoading = IF hook = "useEmailConfig" THEN FALSE ELSE ~skip
    /\ error = Null
    /\ inflight = {}
    /\ requestCap = MaxReadRequests
    /\ nextId = 1
    /\ maxApplied = 0
    /\ traceCalls = TRUE
    /\ lastCall = "render"
    /\ enableAutoLoad = FALSE /\ tags = UndefinedTags /\ sort = "newest"
    /\ entries = <<>> /\ nextCursor = NoCursor /\ isLoadingMore = FALSE
    /\ MutationIdle /\ ClientIdle /\ UiIdle

\* every read hook with the default page option
ReadInit == ReadInitWith({1})

ReadNext ==
    \/ ReadMount
    \/ ReadUnmount
    \/ ReadSetProjectId
    \/ ReadSetEntryId
    \/ ReadGoToPage
    \/ ReadSetSearch
    \/ ReadRefetch
    \/ ReadResolve
    \/ ReadReject

SpecRead == ReadInit /\ [][ReadNext]_vars

\* the offset-list hooks, mounted with any page option and not skipped
PagesInit ==
    /\ ReadInitWith(InitialPages)
    /\ hook \in ListHooks
    /\ ~skip

PagesNext ==
    \/ ReadMount
    \/ ReadSetProjectId
    \/ ReadGoToPage
    \/ ReadSetSearch
    \/ ReadRefetch
    \/ ReadResolve
    \/ ReadReject

SpecPages == PagesInit /\ [][PagesNext]_vars

\* every read primitive, driven by the consumer under fixed filters
LifecycleInit == PagingInit \/ ReadInit
LifecycleNext == PagingNext \/ ReadNext
SpecLifecycle == LifecycleInit /\ [][LifecycleNext]_vars

\* --------------------------------------------------------- mutation hooks
MutationHooks == {"useSubscribe", "useUnsubscribe", "useCreateProject",
                  "useUpdateProject", "useDeleteProject", "useCreateEntry",
                  "useUpdateEntry", "useDeleteEntry", "usePublishEntry",
                  "useUpdateEmailConfig", "useSendEmail"}
\* hooks whose validation requires the projectId prop, and the entryId prop
ProjectIdHooks == MutationHooks \ {"useUnsubscribe", "useCreateProject"}
EntryIdHooks   == {"useUpdateEntry", "useDeleteEntry", "usePublishEntry"}
\* hooks that keep the returned entity, hooks that keep a message, and hooks
\* whose trigger returns a boolean
DataHooks      == {"useCreateProject", "useUpdateProject", "useCreateEntry",
                   "useUpdateEntry", "usePublishEntry", "useUpdateEmailConfig"}
MessageHooks   == {"useSubscribe", "useUnsubscribe", "useSendEmail"}
BooleanHooks   == {"useUnsubscribe", "useDeleteProject", "useDeleteEntry"}

EntryIdRequired      == "Entry ID is required"
SubscriberIdRequired == "Subscriber ID is required"
SubscriberIds        == {"", "s1"}          \* the argument of unsubscribe
NoCount              == 0                   \* recipientCount === null
ServerMessages       == {"", "done"}        \* result.message

\* the trigger functions of each hook
TriggersOf(h) ==
    CASE h = "useSubscribe"         -> {"subscribe"}
      [] h = "useUnsubscribe"       -> {"unsubscribe"}
      [] h = "useCreateProject"     -> {"createProject"}
      [] h = "useUpdateProject"     -> {"updateProject"}
      [] h = "useDeleteProject"     -> {"deleteProject"}
      [] h = "useCreateEntry"       -> {"createEntry"}
      [] h = "useUpdateEntry"       -> {"updateEntry"}
      [] h = "useDeleteEntry"       -> {"deleteEntry"}
      [] h = "usePublishEntry"      -> {"publishEntry", "unpublishEntry"}
      [] h = "useUpdateEmailConfig" -> {"updateConfig"}
      [] h = "useSendEmail"         -> {"sendEmail"}

Triggers == UNION {TriggersOf(h) : h \in MutationHooks}

\* the values one render of a mutation hook sees
MutationRender == [projectId |-> projectId, entryId |-> entryId,
                   isLoading |-> isLoading, isSuccess |-> isSuccess,
                   error |-> error, data |-> data, message |-> message,
                   recipientCount |-> recipientCount]

\* validateProjectId and validateIds: the error they throw, Null if none
validate(c) ==
    IF hook \in ProjectIdHooks /\ c.projectId = Undefined THEN ProjectIdRequired
    ELSE IF hook \in EntryIdHooks /\ c.entryId = Undefined THEN EntryIdRequired
    ELSE Null

\* the setters at the head of the try block; subscribe alone leaves isSuccess
tryHead(s) ==
    [s EXCEPT !.isLoading = TRUE,
              !.error = Null,
              !.message = IF hook \in MessageHooks THEN Null ELSE @,
              !.isSuccess = IF hook = "useSubscribe" THEN @ ELSE FALSE]

\* catch and finally; subscribe alone clears isSuccess
catchFinally(s, err) ==
    [s EXCEPT !.error = err,
              !.isSuccess = IF hook = "useSubscribe" THEN FALSE ELSE @,
              !.isLoading = FALSE]

\* what the trigger returns from its catch block and after its try block
returnedOnFailure ==
    IF hook = "useSubscribe" THEN "void"
    ELSE IF hook \in BooleanHooks THEN "false" ELSE "null"

returnedOnSuccess ==
    IF hook = "useSubscribe" THEN "void"
    ELSE IF hook \in BooleanHooks THEN "true" ELSE "value"

MutationRequest(c, call, subscriberId, id) ==
    [id |-> id, call |-> call, projectId |-> c.projectId, entryId |-> c.entryId,
     subscriberId |-> subscriberId]

\* a trigger up to its await: unsubscribe tests its argument before the try
\* block; validation throws inside the try block, so catch and finally run
\* at once
trigger_validatesOutsideTry(c, s, call, subscriberId, id) ==
    IF hook = "useUnsubscribe" /\ subscriberId = ""
    THEN [s |-> [s EXCEPT !.error = SubscriberIdRequired], reqs |-> {},
          returned |-> "false"]
    ELSE IF validate(c) # Null
    THEN [s |-> s, reqs |-> {}, returned |-> "threw"]
    ELSE [s |-> tryHead(s), reqs |-> {MutationRequest(c, call, subscriberId, id)},
          returned |-> "pending"]

trigger(c, s, call, subscriberId, id) ==
    IF hook = "useUnsubscribe" /\ subscriberId = ""
    THEN [s |-> [s EXCEPT !.error = SubscriberIdRequired], reqs |-> {},
          returned |-> "false"]
    ELSE IF validate(c) # Null
    THEN [s |-> catchFinally(tryHead(s), validate(c)), reqs |-> {},
          returned |-> returnedOnFailure]
    ELSE [s |-> tryHead(s), reqs |-> {MutationRequest(c, call, subscriberId, id)},
          returned |-> "pending"]

\* the entity a create, update or publish request returns
mutationResult(req) == [projectId |-> req.projectId, entryId |-> req.entryId,
                        rev |-> req.id]

DefaultMessage ==
    IF hook = "useSubscribe" THEN "Subscription successful"
    ELSE "Successfully unsubscribed"

\* the rest of the try block after the await resolved, and finally
resolved(s, req, serverMessage) ==
    [s EXCEPT !.data = IF hook \in DataHooks THEN mutationResult(req) ELSE @,
              !.isSuccess = TRUE,
              !.message = IF hook \in {"useSubscribe", "useUnsubscribe"}
                          THEN OrElse(serverMessage, DefaultMessage)
                          ELSE IF hook = "useSendEmail" THEN serverMessage ELSE @,
              !.recipientCount = IF hook = "useSendEmail" THEN 1 ELSE @,
              !.isLoading = FALSE]

reset(s) ==
    [s EXCEPT !.data = IF hook \in DataHooks THEN NoData ELSE @,
              !.isLoading = FALSE,
              !.isSuccess = FALSE,
              !.error = Null,
              !.message = IF hook \in MessageHooks THEN Null ELSE @,
              !.recipientCount = IF hook = "useSendEmail" THEN NoCount ELSE @]

\* a mutation hook has no effect: a commit only stores what the handler set
MutationCommit(out, call) ==
    /\ nextId + Cardinality(out.reqs) <= requestCap + 1
    /\ projectId' = out.s.projectId
    /\ entryId' = out.s.entryId
    /\ isLoading' = out.s.isLoading
    /\ isSuccess' = out.s.isSuccess
    /\ error' = out.s.error
    /\ data' = out.s.data
    /\ message' = out.s.message
    /\ recipientCount' = out.s.recipientCount
    /\ returned' = IF out.returned = "pending" THEN returned ELSE out.returned
    /\ nextId' = nextId + Cardinality(out.reqs)
    /\ lastCall' = (IF traceCalls THEN call ELSE lastCall)
    /\ UNCHANGED <<hook, phase, isMounted, requestCap, traceCalls, maxApplied,
                   search, skip, page, total, totalPages, changelogState, clientState>>

\* the consumer calls a trigger of the latest render
MutationTrigger ==
    /\ hook \in MutationHooks
    /\ UNCHANGED uiState
    /\ \E call \in TriggersOf(hook) :
       \E subscriberId \in IF hook = "useUnsubscribe" THEN SubscriberIds ELSE {Undefined} :
          LET out == trigger(MutationRender, MutationRender, call, subscriberId, nextId)
          IN /\ MutationCommit(out, IF subscriberId = "" THEN "unsubscribe('')" ELSE call)
             /\ inflight' = inflight \cup out.reqs

MutationSetProjectId ==
    /\ hook \in ProjectIdHooks
    /\ UNCHANGED uiState
    /\ \E p \in (ProjectIds \cup {Undefined}) \ {projectId} :
          MutationCommit([s |-> [MutationRender EXCEPT !.projectId = p], reqs |-> {},
                          returned |-> "pending"], "setProjectId")
    /\ UNCHANGED inflight

MutationSetEntryId ==
    /\ hook \in EntryIdHooks
    /\ UNCHANGED uiState
    /\ \E e \in (EntryIds \cup {Undefined}) \ {entryId} :
          MutationCommit([s |-> [MutationRender EXCEPT !.entryId = e], reqs |-> {},
                          returned |-> "pending"], "setEntryId")
    /\ UNCHANGED inflight

MutationReset ==
    /\ hook \in MutationHooks
    /\ UNCHANGED uiState
    /\ MutationCommit([s |-> reset(MutationRender), reqs |-> {}, returned |-> "pending"],
                      "reset")
    /\ UNCHANGED inflight

MutationResolve ==
    /\ hook \in MutationHooks
    /\ UNCHANGED uiState
    /\ \E req \in inflight : \E serverMessage \in ServerMessages :
          /\ MutationCommit([s |-> resolved(MutationRender, req, serverMessage),
                             reqs |-> {}, returned |-> returnedOnSuccess], "resolved")
          /\ inflight' = inflight \ {req}

MutationReject ==
    /\ hook \in MutationHooks
    /\ UNCHANGED uiState
    /\ \E req \in inflight : \E err \in TransportErrors :
          /\ MutationCommit([s |-> catchFinally(MutationRender, err),
                             reqs |-> {}, returned |-> returnedOnFailure], "rejected")
          /\ inflight' = inflight \ {req}

\* useState initial values of each hook
MutationInit ==
    /\ hook \in MutationHooks
    /\ phase = "live"
    /\ isMounted = TRUE
    /\ projectId \in IF hook \in ProjectIdHooks THEN ProjectIds \cup {Undefined}
                     ELSE {Undefined}
    /\ entryId \in IF hook \in EntryIdHooks THEN EntryIds \cup {Undefined}
                   ELSE {Undefined}
    /\ isLoading = FALSE /\ isSuccess = FALSE /\ error = Null
    /\ data = NoData /\ message = Null /\ recipientCount = NoCount
    /\ returned = "none"
    /\ inflight = {}
    /\ requestCap = MaxMutationRequests
    /\ nextId = 1
    /\ maxApplied = 0
    /\ traceCalls = TRUE
    /\ lastCall = "render"
    /\ skip = FALSE /\ page = 1 /\ search = Undefined /\ total = 0 /\ totalPages = 0
    /\ enableAutoLoad = FALSE /\ tags = UndefinedTags /\ sort = "newest"
    /\ entries = <<>> /\ nextCursor = NoCursor /\ isLoadingMore = FALSE
    /\ ClientIdle /\ UiIdle

MutationNext ==
    \/ MutationTrigger
    \/ MutationSetProjectId
    \/ MutationSetEntryId
    \/ MutationReset
    \/ MutationResolve
    \/ MutationReject

SpecMutation == MutationInit /\ [][MutationNext]_vars

\* ------------------------------------------------------------------ client
\* the hook variables, where no hook is mounted
HookIdle ==
    /\ hook = "none" /\ phase = "gone" /\ isMounted = FALSE
    /\ projectId = Undefined /\ enableAutoLoad = FALSE
    /\ search = Undefined /\ tags = UndefinedTags /\ sort = "newest"
    /\ entries = <<>> /\ nextCursor = NoCursor
    /\ isLoading = FALSE /\ isLoadingMore = FALSE /\ error = Null
    /\ entryId = Undefined /\ skip = FALSE /\ page = 1
    /\ data = <<>> /\ total = 0 /\ totalPages = 0
    /\ inflight = {} /\ requestCap = 0 /\ nextId = 1 /\ maxApplied = 0
    /\ traceCalls = TRUE /\ lastCall = "none"

hookState == <<hook, phase, isMounted, projectId, enableAutoLoad, search, tags, sort,
               entries, nextCursor, isLoading, isLoadingMore, error,
               entryId, skip, page, data, total, totalPages,
               inflight, requestCap, nextId, maxApplied, traceCalls, lastCall>>

\* a request whose transport rejects with failure: the rejected handler of
\* the response interceptor runs first, the catch of request<T> second
Interceptor ==
    /\ errStage = "transport"
    /\ thrown' = parseApiError(thrown)
    /\ errStage' = "interceptor"
    /\ UNCHANGED <<config, axiosDefaults, failure, hookState, mutationState, uiState>>

RequestCatch ==
    /\ errStage = "interceptor"
    /\ thrown' = parseApiError(thrown)
    /\ errStage' = "caller"
    /\ UNCHANGED <<config, axiosDefaults, failure, hookState, mutationState, uiState>>

RequestInit ==
    /\ HookIdle /\ MutationIdle /\ UiIdle
    /\ config = NoConfig /\ axiosDefaults = NoDefaults
    /\ failure \in RawFailures
    /\ thrown = failure
    /\ errStage = "transport"

RequestNext ==
    \/ Interceptor
    \/ RequestCatch

SpecRequest == RequestInit /\ [][RequestNext]_vars

\* new ChangerawrClient(config): the axios defaults the constructor computes
DefaultTimeout == 30000
ApiKeys  == {Undefined, "", "k1"}
Tokens   == {"t1", "k1"}
Timeouts == {0, 5000, 60000}      \* 0: timeout absent or 0
NoAuth   == [type |-> Undefined, token |-> Undefined]
Configs  == [apiUrl : {"https://a", "https://b"}, projectId : ProjectIds \cup {Undefined},
             apiKey : ApiKeys,
             auth : {NoAuth} \cup [type : {"bearer"}, token : Tokens],
             timeout : Timeouts]

Bearer(credential) == <<"Bearer", credential>>      \* `Bearer ${credential}`

\* the headers object literal: a later spread overrides an earlier one
Headers(c) ==
    LET withApiKey == IF c.apiKey \notin {Undefined, ""} THEN Bearer(c.apiKey) ELSE <<>>
    IN IF c.auth.type = "bearer" THEN Bearer(c.auth.token) ELSE withApiKey

Construct ==
    /\ errStage = "new"
    /\ axiosDefaults' = [timeout |-> IF config.timeout # 0 THEN config.timeout
                                     ELSE DefaultTimeout,
                         Authorization |-> Headers(config)]
    /\ errStage' = "constructed"
    /\ UNCHANGED <<config, failure, thrown, hookState, mutationState, uiState>>

ConstructInit ==
    /\ HookIdle /\ MutationIdle /\ UiIdle
    /\ config \in Configs
    /\ axiosDefaults = NoDefaults
    /\ failure = NoValue /\ thrown = NoValue
    /\ errStage = "new"

ConstructNext == Construct

SpecConstruct == ConstructInit /\ [][ConstructNext]_vars

\* getWidgetScript(projectId, params): the parameters appended to the
\* URLSearchParams, in order; a boolean is modelled by its toString()
WidgetParams == [theme : {Undefined, "light", "dark"},
                 position : {Undefined, "bottom-right"},
                 maxHeight : {Undefined, "400px"},
                 isPopup : {Undefined, "true", "false"},
                 trigger : {Undefined, "immediate"},
                 maxEntries : {NoNumber, 0, 5}]

\* if (params?.field) on a string, a boolean and a number
TruthyString(x)  == x \notin {Undefined, ""}
TruthyBoolean(x) == x = "true"
TruthyNumber(x)  == x \notin {NoNumber, 0}

QueryParam(present, name, value) == IF present THEN <<[name |-> name, value |-> value]>> ELSE <<>>

getWidgetScript(params) ==
       QueryParam(TruthyString(params.theme), "theme", params.theme)
    \o QueryParam(TruthyString(params.position), "position", params.position)
    \o QueryParam(TruthyString(params.maxHeight), "maxHeight", params.maxHeight)
    \o QueryParam(TruthyBoolean(params.isPopup), "popup", params.isPopup)
    \o QueryParam(TruthyString(params.trigger), "trigger", params.trigger)
    \o QueryParam(TruthyNumber(params.maxEntries), "maxEntries", ToString(params.maxEntries))

WidgetScript ==
    /\ errStage = "new"
    /\ script' = getWidgetScript(widgetParams)
    /\ errStage' = "scripted"
    /\ UNCHANGED <<config, axiosDefaults, failure, thrown, hookState, mutationState,
                   clientRef, contextValue, selectedTags, multiSelect,
                   email, onSuccessCalls, onErrorCalls, widgetParams, rendered>>

WidgetInit ==
    /\ HookIdle /\ MutationIdle
    /\ config = NoConfig /\ axiosDefaults = NoDefaults
    /\ failure = NoValue /\ thrown = NoValue
    /\ errStage = "new"
    /\ clientRef = NoClient /\ contextValue = NoContext
    /\ selectedTags = <<>> /\ multiSelect = TRUE
    /\ email = "" /\ onSuccessCalls = 0 /\ onErrorCalls = 0
    /\ widgetParams \in WidgetParams
    /\ script = <<>>
    /\ rendered = NoRender

WidgetNext == WidgetScript

SpecWidget == WidgetInit /\ [][WidgetNext]_vars

\* ------------------------------------------------------------- useTagFilter
TagIds        == {"t1", "t2", "t3"}     \* ids the consumer passes to the hook
AvailableTags == <<"t1", "t2">>         \* availableTags.map((tag) => tag.id)
InitialSelectedTags == UNION {[1..n -> TagIds] : n \in 0..MaxInitialTags}

Range(seq)        == {seq[i] : i \in 1..Len(seq)}
Includes(seq, id) == id \in Range(seq)              \* seq.includes(id)

\* prevSelectedTags.filter((id) => id !== tagId)
Without_keepsAll(seq, tagId) == seq

Without(seq, tagId) == SelectSeq(seq, LAMBDA id : id # tagId)

toggleTag_appendsInSingleSelect(prevSelectedTags, tagId, multi) ==
    IF Includes(prevSelectedTags, tagId) THEN Without(prevSelectedTags, tagId)
    ELSE Append(prevSelectedTags, tagId)

toggleTag(prevSelectedTags, tagId, multi) ==
    IF Includes(prevSelectedTags, tagId) THEN Without(prevSelectedTags, tagId)
    ELSE IF multi THEN Append(prevSelectedTags, tagId)
    ELSE <<tagId>>

selectTag(prevSelectedTags, tagId, multi) ==
    IF Includes(prevSelectedTags, tagId) THEN prevSelectedTags
    ELSE IF multi THEN Append(prevSelectedTags, tagId)
    ELSE <<tagId>>

unselectTag(prevSelectedTags, tagId) == Without(prevSelectedTags, tagId)

selectAllTags_ignoresMode(prevSelectedTags, multi) ==
    IF Len(AvailableTags) = 0 THEN prevSelectedTags ELSE AvailableTags

selectAllTags(prevSelectedTags, multi) ==
    IF ~multi \/ Len(AvailableTags) = 0 THEN prevSelectedTags ELSE AvailableTags

clearTags == <<>>

\* the name of a call with its argument
TagCall(name, tagId) == name \o "(" \o tagId \o ")"

\* a handler of useTagFilter: it sets selectedTags and nothing else
TagCommit(newSelectedTags, call) ==
    /\ hook = "useTagFilter"
    /\ selectedTags' = newSelectedTags
    /\ lastCall' = call
    /\ UNCHANGED <<hook, phase, isMounted, projectId, enableAutoLoad, search, tags, sort,
                   entries, nextCursor, isLoading, isLoadingMore, error,
                   entryId, skip, page, data, total, totalPages,
                   inflight, requestCap, nextId, maxApplied, traceCalls,
                   mutationState, clientState, clientRef, contextValue, multiSelect,
                   email, onSuccessCalls, onErrorCalls, widgetParams, script, rendered>>

TagToggle ==
    \E tagId \in TagIds :
       TagCommit(toggleTag(selectedTags, tagId, multiSelect), TagCall("toggleTag", tagId))

TagSelect ==
    \E tagId \in TagIds :
       TagCommit(selectTag(selectedTags, tagId, multiSelect), TagCall("selectTag", tagId))

TagUnselect ==
    \E tagId \in TagIds :
       TagCommit(unselectTag(selectedTags, tagId), TagCall("unselectTag", tagId))

TagSelectAll == TagCommit(selectAllTags(selectedTags, multiSelect), "selectAllTags")

TagClear == TagCommit(clearTags, "clearTags")

TagFilterInit ==
    /\ hook = "useTagFilter" /\ phase = "live" /\ isMounted = TRUE
    /\ projectId = Undefined /\ enableAutoLoad = FALSE
    /\ search = Undefined /\ tags = UndefinedTags /\ sort = "newest"
    /\ entries = <<>> /\ nextCursor = NoCursor
    /\ isLoading = FALSE /\ isLoadingMore = FALSE /\ error = Null
    /\ entryId = Undefined /\ skip = FALSE /\ page = 1
    /\ data = <<>> /\ total = 0 /\ totalPages = 0
    /\ inflight = {} /\ requestCap = 0 /\ nextId = 1 /\ maxApplied = 0
    /\ traceCalls = TRUE /\ lastCall = "render"
    /\ MutationIdle /\ ClientIdle
    /\ clientRef = NoClient /\ contextValue = NoContext
    /\ selectedTags \in InitialSelectedTags
    /\ multiSelect \in BOOLEAN
    /\ email = "" /\ onSuccessCalls = 0 /\ onErrorCalls = 0
    /\ widgetParams = NoParams /\ script = <<>> /\ rendered = NoRender

TagFilterNext ==
    \/ TagToggle
    \/ TagSelect
    \/ TagUnselect
    \/ TagSelectAll
    \/ TagClear

SpecTagFilter == TagFilterInit /\ [][TagFilterNext]_vars

\* ------------------------------------------------------- ChangerawrProvider
\* The props of the provider apart from the initial projectId. `error` holds
\* an error value here, NoValue standing for null.
ProviderProps == [apiUrl : {"https://a", "https://b"}, apiKey : {Undefined, "k1"},
                  auth : {NoAuth, [type |-> "bearer", token |-> "t1"]},
                  timeout : {0, 5000}]

\* what createChangerawrClient(config) can throw
ConstructorFailures ==
    { ChangerawrError("ChangerawrError", "Invalid configuration", NoValue, NoStatus,
                      Undefined),
      Value("string", FALSE, Undefined, Undefined, NoResponse, Undefined, NoStatus,
            Undefined, 1, NoRef) }

IsChangerawrError(err) == err.name # Undefined      \* err instanceof ChangerawrError

\* the config memo: the props and the projectId state
MemoConfig(props, pid) ==
    [apiUrl |-> props.apiUrl, projectId |-> pid, apiKey |-> props.apiKey,
     auth |-> props.auth, timeout |-> props.timeout]

\* the dependency list of the effect that constructs the client
EffectDeps_withProjectId(c) == <<c.apiUrl, c.apiKey, c.auth.token, c.timeout, c.projectId>>

EffectDeps(c) == <<c.apiUrl, c.apiKey, c.auth.token, c.timeout>>

\* the catch block of the effect: the value given to setError
Caught_alwaysWraps(err) ==
    ChangerawrError("ChangerawrError", "Failed to initialize Changerawr client",
                    err, NoStatus, Undefined)

Caught(err) ==
    IF IsChangerawrError(err) THEN err
    ELSE ChangerawrError("ChangerawrError", "Failed to initialize Changerawr client",
                         err, NoStatus, Undefined)

\* the contextValue memo, computed during a render from clientRef.current
ContextValue(ref, c, err) ==
    [client |-> ref, config |-> c, projectId |-> c.projectId, error |-> err]

ProviderFrame ==
    UNCHANGED <<hook, isMounted, enableAutoLoad, search, tags, sort,
                entries, nextCursor, isLoading, isLoadingMore,
                entryId, skip, page, data, total, totalPages,
                inflight, requestCap, maxApplied, traceCalls,
                mutationState, axiosDefaults, thrown,
                selectedTags, multiSelect, email, onSuccessCalls, onErrorCalls,
                widgetParams, script, rendered>>

\* One commit of the provider. The render computes the memos from the refs
\* and state as they are; the effect runs after it when runEffect holds and
\* either sets clientRef.current (no render follows) or catches what the
\* constructor threw and sets the error state, which renders once more.
ProviderCommit(c, runEffect, call) ==
    /\ hook = "ChangerawrProvider"
    /\ config' = c
    /\ projectId' = c.projectId
    /\ lastCall' = call
    /\ phase' = "live"
    /\ IF runEffect
       THEN /\ nextId <= MaxClients
            /\ nextId' = nextId + 1
            /\ \/ /\ clientRef' = [gen |-> nextId, config |-> c]
                  /\ errStage' = "constructed"
                  /\ failure' = NoValue
                  /\ error' = error
                  /\ contextValue' = ContextValue(clientRef, c, error)
               \/ \E err \in ConstructorFailures :
                     /\ clientRef' = clientRef
                     /\ errStage' = "threw"
                     /\ failure' = err
                     /\ error' = Caught(err)
                     /\ contextValue' = ContextValue(clientRef, c, Caught(err))
       ELSE /\ contextValue' = ContextValue(clientRef, c, error)
            /\ UNCHANGED <<clientRef, errStage, failure, error, nextId>>
    /\ ProviderFrame

\* first render and first run of the effect
ProviderMount ==
    /\ phase = "idle"
    /\ ProviderCommit(config, TRUE, "mount")

\* the parent renders the provider with other props, or with the same props
\* and a new auth object
ProviderSetProps ==
    /\ phase = "live"
    /\ \E props \in ProviderProps, freshAuth \in BOOLEAN :
          LET c == MemoConfig(props, projectId)
              memoChanged == c # config \/ (freshAuth /\ props.auth # NoAuth)
          IN /\ memoChanged
             /\ ProviderCommit(c, EffectDeps(c) # EffectDeps(config), "setProps")

\* setProjectId(id) from the context: a state change, bailing out when equal
ProviderSetProjectId ==
    /\ phase = "live"
    /\ \E pid \in ProjectIds \cup {Undefined} :
          /\ pid # projectId
          /\ LET c == [config EXCEPT !.projectId = pid]
             IN ProviderCommit(c, EffectDeps(c) # EffectDeps(config), "setProjectId")

\* clearError() from the context
ProviderClearError ==
    /\ hook = "ChangerawrProvider"
    /\ phase = "live"
    /\ error # NoValue
    /\ error' = NoValue
    /\ contextValue' = ContextValue(clientRef, config, NoValue)
    /\ lastCall' = "clearError"
    /\ UNCHANGED <<phase, projectId, config, clientRef, errStage, failure, nextId>>
    /\ ProviderFrame

ProviderInit ==
    /\ hook = "ChangerawrProvider" /\ phase = "idle" /\ isMounted = FALSE
    /\ projectId \in ProjectIds \cup {Undefined} /\ enableAutoLoad = FALSE
    /\ search = Undefined /\ tags = UndefinedTags /\ sort = "newest"
    /\ entries = <<>> /\ nextCursor = NoCursor
    /\ isLoading = FALSE /\ isLoadingMore = FALSE /\ error = NoValue
    /\ entryId = Undefined /\ skip = FALSE /\ page = 1
    /\ data = <<>> /\ total = 0 /\ totalPages = 0
    /\ inflight = {} /\ requestCap = 0 /\ nextId = 1 /\ maxApplied = 0
    /\ traceCalls = TRUE /\ lastCall = "none"
    /\ MutationIdle
    /\ \E props \in ProviderProps : config = MemoConfig(props, projectId)
    /\ axiosDefaults = NoDefaults /\ failure = NoValue /\ thrown = NoValue
    /\ errStage = "new"
    /\ clientRef = NoClient
    /\ contextValue = ContextValue(NoClient, NoConfig, NoValue)
    /\ selectedTags = <<>> /\ multiSelect = TRUE
    /\ email = "" /\ onSuccessCalls = 0 /\ onErrorCalls = 0
    /\ widgetParams = NoParams /\ script = <<>> /\ rendered = NoRender

ProviderNext ==
    \/ ProviderMount
    \/ ProviderSetProps
    \/ ProviderSetProjectId
    \/ ProviderClearError

SpecProvider == ProviderInit /\ [][ProviderNext]_vars

\* --------------------------------------------------------- SubscriptionForm
\* The form over useSubscribe (hook = "useSubscribe"), with onSuccess and
\* onError supplied; onSuccessCalls and onErrorCalls count their invocations.
Emails == {"", "a@b.c"}

\* handleSubmit after `await subscribe(...)`: the try block goes on when the
\* promise fulfilled, the catch block runs when it rejected
AfterSubscribe(outcome) ==
    IF outcome = "threw"
    THEN /\ onErrorCalls' = onErrorCalls + 1
         /\ onSuccessCalls' = onSuccessCalls
    ELSE /\ onSuccessCalls' = onSuccessCalls + 1
         /\ onErrorCalls' = onErrorCalls

FormFrame == UNCHANGED <<clientRef, contextValue, selectedTags, multiSelect,
                         widgetParams, script, rendered>>

\* onChange of the email input, rendered while the form is
FormSetEmail ==
    /\ hook = "useSubscribe"
    /\ ~isSuccess
    /\ \E e \in Emails \ {email} : email' = e
    /\ lastCall' = "setEmail"
    /\ UNCHANGED <<hook, phase, isMounted, projectId, enableAutoLoad, search, tags, sort,
                   entries, nextCursor, isLoading, isLoadingMore, error,
                   entryId, skip, page, data, total, totalPages,
                   inflight, requestCap, nextId, maxApplied, traceCalls,
                   mutationState, clientState, onSuccessCalls, onErrorCalls>>
    /\ FormFrame

\* the projectId prop (or the context's projectId) changes
FormSetProjectId ==
    /\ hook = "useSubscribe"
    /\ FormFrame
    /\ \E p \in (ProjectIds \cup {Undefined}) \ {projectId} :
          MutationCommit([s |-> [MutationRender EXCEPT !.projectId = p], reqs |-> {},
                          returned |-> "pending"], "setProjectId")
    /\ UNCHANGED <<inflight, email, onSuccessCalls, onErrorCalls>>

\* onSubmit of the form; the submit button is disabled while isLoading
FormSubmit ==
    /\ hook = "useSubscribe"
    /\ ~isSuccess /\ ~isLoading
    /\ onSuccessCalls + onErrorCalls < MaxSubmits
    /\ FormFrame
    /\ email' = email
    /\ IF email = ""
       THEN /\ lastCall' = "submit"
            /\ UNCHANGED <<hook, phase, isMounted, projectId, enableAutoLoad, search, tags,
                           sort, entries, nextCursor, isLoading, isLoadingMore, error,
                           entryId, skip, page, data, total, totalPages,
                           inflight, requestCap, nextId, maxApplied, traceCalls,
                           mutationState, clientState, onSuccessCalls, onErrorCalls>>
       ELSE LET out == trigger(MutationRender, MutationRender, "subscribe", Undefined,
                               nextId)
            IN /\ MutationCommit(out, "submit")
               /\ inflight' = inflight \cup out.reqs
               /\ IF out.reqs = {}
                  THEN AfterSubscribe(out.returned)
                  ELSE UNCHANGED <<onSuccessCalls, onErrorCalls>>

\* the subscribe request fulfils: subscribe resumes, then handleSubmit
FormResolve ==
    /\ hook = "useSubscribe"
    /\ FormFrame
    /\ email' = email
    /\ \E req \in inflight : \E serverMessage \in ServerMessages :
          /\ MutationCommit([s |-> resolved(MutationRender, req, serverMessage),
                             reqs |-> {}, returned |-> returnedOnSuccess], "resolved")
          /\ inflight' = inflight \ {req}
          /\ AfterSubscribe(returnedOnSuccess)

\* the subscribe request rejects: subscribe catches, then handleSubmit resumes
FormReject ==
    /\ hook = "useSubscribe"
    /\ FormFrame
    /\ email' = email
    /\ \E req \in inflight : \E err \in TransportErrors :
          /\ MutationCommit([s |-> catchFinally(MutationRender, err),
                             reqs |-> {}, returned |-> returnedOnFailure], "rejected")
          /\ inflight' = inflight \ {req}
          /\ AfterSubscribe(returnedOnFailure)

\* the "Subscribe another" button, rendered after a success
FormReset ==
    /\ hook = "useSubscribe"
    /\ isSuccess
    /\ FormFrame
    /\ email' = ""
    /\ MutationCommit([s |-> reset(MutationRender), reqs |-> {}, returned |-> "pending"],
                      "handleReset")
    /\ UNCHANGED <<inflight, onSuccessCalls, onErrorCalls>>

FormInit ==
    /\ hook = "useSubscribe"
    /\ phase = "live"
    /\ isMounted = TRUE
    /\ projectId \in ProjectIds \cup {Undefined}
    /\ entryId = Undefined
    /\ isLoading = FALSE /\ isSuccess = FALSE /\ error = Null
    /\ data = NoData /\ message = Null /\ recipientCount = NoCount
    /\ returned = "none"
    /\ inflight = {}
    /\ requestCap = MaxSubmits
    /\ nextId = 1
    /\ maxApplied = 0
    /\ traceCalls = TRUE
    /\ lastCall = "render"
    /\ skip = FALSE /\ page = 1 /\ search = Undefined /\ total = 0 /\ totalPages = 0
    /\ enableAutoLoad = FALSE /\ tags = UndefinedTags /\ sort = "newest"
    /\ entries = <<>> /\ nextCursor = NoCursor /\ isLoadingMore = FALSE
    /\ ClientIdle /\ UiIdle

FormNext ==
    \/ FormSetEmail
    \/ FormSetProjectId
    \/ FormSubmit
    \/ FormResolve
    \/ FormReject
    \/ FormReset

SpecForm == FormInit /\ [][FormNext]_vars

\* ---------------------------------------------------------- useWidgetScript
\* The hook as ChangerawrWidget uses it: projectId and the option values are
\* fixed, and the options object is a new one on every render, so the fetch
\* effect (dependencies [projectId, options, fetchWidgetScript]) runs after
\* every commit. getWidgetScript is an async method: its result reaches the
\* hook in a later continuation. Whether React commits a render between the
\* effect's setIsLoading(true) and that continuation depends on the root
\* (legacy roots render at once, concurrent roots batch), so commits and
\* continuations interleave freely here.
WidgetOptions == {p \in WidgetParams :
                     /\ p.theme # Undefined /\ p.position # Undefined
                     /\ p.isPopup # Undefined}

WidgetHookFrame ==
    UNCHANGED <<hook, isMounted, projectId, enableAutoLoad, search, tags, sort,
                entries, nextCursor, isLoadingMore, entryId, skip, page, data,
                total, totalPages, requestCap, maxApplied, traceCalls,
                mutationState, clientState, clientRef, contextValue,
                selectedTags, multiSelect, email, onSuccessCalls, onErrorCalls,
                widgetParams>>

\* what a commit shows of the hook's state
WidgetHookState == [script |-> script, isLoading |-> isLoading, error |-> error]

\* fetchWidgetScript up to its await, with a projectId
fetchWidgetScript ==
    /\ nextId <= requestCap
    /\ isLoading' = (IF isMounted THEN TRUE ELSE isLoading)
    /\ inflight' = inflight \cup {[id |-> nextId, params |-> widgetParams]}
    /\ nextId' = nextId + 1
    /\ UNCHANGED <<script, error>>

\* first commit and the effects after it
WidgetHookMount ==
    /\ hook = "useWidgetScript"
    /\ phase = "idle"
    /\ phase' = "live"
    /\ rendered' = WidgetHookState
    /\ fetchWidgetScript
    /\ lastCall' = "mount"
    /\ WidgetHookFrame

\* a state change of the hook is committed; the effect runs after the commit
WidgetHookRender ==
    /\ hook = "useWidgetScript"
    /\ phase = "live"
    /\ rendered # WidgetHookState
    /\ rendered' = WidgetHookState
    /\ fetchWidgetScript
    /\ phase' = phase
    /\ lastCall' = "render"
    /\ WidgetHookFrame

\* the rest of fetchWidgetScript after the await, and finally
WidgetHookSettle ==
    /\ hook = "useWidgetScript"
    /\ phase = "live"
    /\ \E call \in inflight :
          /\ inflight' = inflight \ {call}
          /\ script' = (IF isMounted THEN getWidgetScript(call.params) ELSE script)
          /\ error' = (IF isMounted THEN Null ELSE error)
          /\ isLoading' = (IF isMounted THEN FALSE ELSE isLoading)
    /\ lastCall' = "settled"
    /\ UNCHANGED <<phase, nextId, rendered>>
    /\ WidgetHookFrame

WidgetHookInit ==
    /\ hook = "useWidgetScript" /\ phase = "idle" /\ isMounted = TRUE
    /\ projectId \in ProjectIds /\ enableAutoLoad = FALSE
    /\ search = Undefined /\ tags = UndefinedTags /\ sort = "newest"
    /\ entries = <<>> /\ nextCursor = NoCursor
    /\ isLoading = FALSE /\ isLoadingMore = FALSE /\ error = Null
    /\ entryId = Undefined /\ skip = FALSE /\ page = 1
    /\ data = <<>> /\ total = 0 /\ totalPages = 0
    /\ inflight = {} /\ requestCap = MaxWidgetCalls /\ nextId = 1 /\ maxApplied = 0
    /\ traceCalls = TRUE /\ lastCall = "none"
    /\ MutationIdle /\ ClientIdle
    /\ clientRef = NoClient /\ contextValue = NoContext
    /\ selectedTags = <<>> /\ multiSelect = TRUE
    /\ email = "" /\ onSuccessCalls = 0 /\ onErrorCalls = 0
    /\ widgetParams \in WidgetOptions
    /\ script = NoScript
    /\ rendered = NoRender

WidgetHookNext ==
    \/ WidgetHookMount
    \/ WidgetHookRender
    \/ WidgetHookSettle

SpecWidgetHook == WidgetHookInit /\ [][WidgetHookNext]_vars

\* every primitive that has a trigger function, driven by the consumer
TriggersInit == LifecycleInit \/ MutationInit
TriggersNext == LifecycleNext \/ MutationNext
SpecTriggers == TriggersInit /\ [][TriggersNext]_vars

\* ------------------------------------------------------------------- claims
Dispatched == inflight' \ inflight      \* requests a step dispatches
Settled    == inflight \ inflight'      \* the request a step settles

\* C1: a response of a fetch issued before one whose response was already
\* stored does not overwrite the stored data, cursor or error.
C1_EarlierFetchDoesNotOverwrite ==
    [][\A req \in Settled :
          req.id < maxApplied => UNCHANGED <<entries, nextCursor, error>>]_vars

\* C2: once the component has unmounted, a response of an in-flight request,
\* success or failure, changes none of the primitive's state fields.
C2_ResponseAfterUnmountDiscarded ==
    [][(~isMounted /\ Settled # {}) =>
          UNCHANGED <<data, entries, error, isLoading, isLoadingMore, nextCursor,
                      total, totalPages>>]_vars

C2_Witness ==
    /\ hook = "useChangelog" /\ phase = "gone" /\ lastCall = "resolvedNextPage"
    /\ isLoadingMore /\ Len(entries) = PageSize

\* C3: with a projectId present, every accumulated entry comes from a request
\* dispatched under the current projectId, search, tags and sort.
C3_NoStaleFilterEntries ==
    projectId # Undefined =>
        \A i \in DOMAIN entries :
            <<entries[i].projectId, entries[i].search, entries[i].tags, entries[i].sort>>
                = <<projectId, search, tags, sort>>

\* C4: a change of search, tags, sort or projectId that leaves a projectId
\* present empties the accumulated sequence, clears nextCursor and dispatches
\* exactly one request: an initial one, without cursor, with the new values.
C4_ChangeResetsAndFetchesOnce ==
    [][(<<projectId, search, tags, sort>>' # <<projectId, search, tags, sort>>
        /\ projectId' # Undefined) =>
          /\ entries' = <<>>
          /\ nextCursor' = NoCursor
          /\ Cardinality(Dispatched) = 1
          /\ \A req \in Dispatched :
                /\ req.initial /\ req.cursor = NoCursor
                /\ <<req.projectId, req.search, req.tags, req.sort>>
                      = <<projectId', search', tags', sort'>>]_vars

C4_Witness ==
    /\ hook = "useChangelog" /\ projectId = "p2" /\ search = "a" /\ maxApplied >= 1
    /\ entries = <<>> /\ nextCursor = NoCursor
    /\ \E req \in inflight : req.initial /\ req.projectId = "p2" /\ req.search = "a"

\* C5: fetchNextPage called while a fetch is in flight dispatches nothing
\* and changes no state.
C5_FetchNextPageIdleWhileInFlight ==
    [][(lastCall' = "fetchNextPage" /\ inflight # {}) =>
          /\ inflight' = inflight
          /\ UNCHANGED <<entries, nextCursor, error, isLoading, isLoadingMore>>]_vars

\* C6: fetchNextPage called while nextCursor is absent dispatches nothing and
\* leaves entries, error, the loading flags and nextCursor unchanged.
C6_FetchNextPageIdleWithoutCursor ==
    [][(lastCall' = "fetchNextPage" /\ nextCursor = NoCursor) =>
          /\ inflight' = inflight /\ nextId' = nextId
          /\ UNCHANGED <<entries, nextCursor, error, isLoading, isLoadingMore>>]_vars

C6_Witness ==
    /\ hook = "useChangelog" /\ lastCall = "fetchNextPage" /\ nextCursor = NoCursor
    /\ Len(entries) >= 2 * PageSize /\ inflight = {}

\* C7: under fixed filters the accumulated sequence is the concatenation of
\* the server's pages 1..k, N items each, no item twice.
C7_EntriesArePagesInOrder ==
    \A i \in DOMAIN entries :
        /\ entries[i].page = ((i - 1) \div PageSize) + 1
        /\ entries[i].idx = ((i - 1) % PageSize) + 1

\* C8: a failed fetch of a single-item or offset-list primitive stores the
\* error and leaves the stored data, total and totalPages unchanged.
C8_FailureKeepsData ==
    [][(hook \in ReadHooks /\ lastCall' = "rejected" /\ isMounted) =>
          /\ error' \in TransportErrors
          /\ UNCHANGED <<data, total, totalPages>>]_vars

\* C9: a failed next-page request stores the error and leaves the
\* accumulated sequence and nextCursor as they were.
C9_NextPageFailureKeepsEntries ==
    [][(lastCall' = "rejectedNextPage" /\ isMounted) =>
          /\ error' \in TransportErrors
          /\ UNCHANGED <<entries, nextCursor>>]_vars

C9_Witness ==
    /\ hook = "useChangelog" /\ lastCall = "rejectedNextPage" /\ isMounted
    /\ error \in TransportErrors /\ Len(entries) = PageSize /\ nextCursor = 2

\* C10: auto-load dispatches no next-page request from a state in which a
\* failure is stored.
C10_AutoLoadStopsOnError ==
    [][error # Null => \A req \in Dispatched : req.initial]_vars

\* ---------------------------------------------------- claims on the client
TimeoutCodes    == {"ECONNABORTED"}
ConnectionCodes == {"ECONNREFUSED", "ENOTFOUND"}

\* a and b have the same kind, message and httpStatus
SameKindMessageStatus(a, b) ==
    a.name = b.name /\ a.message = b.message /\ a.status = b.status

\* C14: whatever the transport rejected with, the caller of a client method
\* receives an error with the kind, message and httpStatus of parseApiError
\* applied once to that failure.
C14_CallerReceivesClassifiedOnce ==
    errStage = "caller" => SameKindMessageStatus(thrown, parseApiError(failure))

\* C15: parseApiError applied to an already classified error yields an error
\* of the same kind, message, httpStatus and details.
C15_ParseIdempotent ==
    [][errStage = "interceptor" =>
          /\ SameKindMessageStatus(thrown', thrown)
          /\ thrown'.details = thrown.details]_vars

\* C16: a failure with an HTTP response and neither a timeout nor a
\* connection signal is Auth for 401 and 403, Request for another status in
\* 400..499 and Server from 500 on; its message is the error string the
\* server supplied, or the default of its kind; httpStatus is the status.
C16_StatusClassification ==
    ( /\ errStage = "interceptor"
      /\ failure.type = "object"
      /\ failure.code \notin TimeoutCodes \cup ConnectionCodes
      /\ failure.response.present
      /\ failure.response.status >= 400 )
    => LET status   == failure.response.status
           supplied == failure.response.error
           kind     == IF status \in {401, 403} THEN "ChangerawrAuthError"
                       ELSE IF status <= 499 THEN "ChangerawrRequestError"
                       ELSE "ChangerawrServerError"
           default  == CASE kind = "ChangerawrAuthError"    -> "Authentication failed"
                         [] kind = "ChangerawrRequestError" -> "Invalid request"
                         [] kind = "ChangerawrServerError"  -> "Server error"
       IN /\ thrown.name = kind
          /\ thrown.message = IF supplied \notin {Undefined, ""} THEN supplied ELSE default
          /\ thrown.status = status

C16_Witness ==
    /\ errStage = "interceptor"
    /\ failure.code = Undefined
    /\ failure.response.present
    /\ failure.response.status = 403
    /\ failure.response.error = "forbidden"
    /\ thrown.name = "ChangerawrAuthError"
    /\ thrown.status = 403

\* C17: a failure with a timeout signal is Timeout and one with a connection
\* signal is Network, whether or not it also carries an HTTP response.
C17_SignalsBeforeResponse ==
    (errStage = "interceptor" /\ failure.type = "object")
    => /\ failure.code \in TimeoutCodes => thrown.name = "ChangerawrTimeoutError"
       /\ failure.code \in ConnectionCodes => thrown.name = "ChangerawrNetworkError"

C17_Witness ==
    /\ errStage = "interceptor"
    /\ failure.code = "ECONNREFUSED"
    /\ failure.response.present
    /\ failure.response.status = 500
    /\ thrown.name = "ChangerawrNetworkError"

\* no rule of parseApiError matches the failure
Unmatched(f) ==
    \/ f.type # "object"
    \/ /\ f.code \notin TimeoutCodes \cup ConnectionCodes
       /\ ~f.response.present \/ f.response.status < 400

\* C18: a failure that matches no rule is classified Unknown, with the
\* failure's own message when it has one and "Unknown error" otherwise, and
\* keeps the failure as its cause.
C18_UnmatchedIsUnknown ==
    (errStage = "interceptor" /\ Unmatched(failure))
    => /\ thrown.name = "ChangerawrError"
       /\ thrown.message = IF failure.message # Undefined THEN failure.message
                           ELSE "Unknown error"
       /\ thrown.cause = failure.ref

\* C20: a client constructed with both apiKey and a bearer auth sends
\* Authorization: Bearer <apiKey>.
C20_ApiKeyTakesPrecedence ==
    ( /\ errStage = "constructed"
      /\ config.apiKey \notin {Undefined, ""}
      /\ config.auth.type = "bearer" )
    => axiosDefaults.Authorization = Bearer(config.apiKey)

\* ------------------------------------------- claims on triggers and requests
\* C11: no mutation hook is ever loading and successful at once; an attempt
\* after a success has cleared isSuccess by the time isLoading is true.
C11_NeverLoadingAndSuccess ==
    hook \in MutationHooks => ~(isLoading /\ isSuccess)

MissingIdentifierErrors == {ProjectIdRequired, EntryIdRequired, SubscriberIdRequired}

\* the step is a trigger invoked while an identifier it requires is missing
MissingIdentifierCall ==
    /\ hook \in MutationHooks
    /\ lastCall' \in Triggers \cup {"unsubscribe('')"}
    /\ \/ hook \in ProjectIdHooks /\ projectId = Undefined
       \/ hook \in EntryIdHooks /\ entryId = Undefined
       \/ lastCall' = "unsubscribe('')"

\* C12: a mutation trigger invoked with a required identifier missing
\* dispatches no request, and when it returns error describes the missing
\* identifier and isLoading is false.
C12_MissingIdentifierFailsLocally ==
    [][MissingIdentifierCall =>
          /\ Dispatched = {}
          /\ error' \in MissingIdentifierErrors
          /\ ~isLoading']_vars

\* the step completes a trigger invocation with a failure
FailedInvocation ==
    \/ MissingIdentifierCall
    \/ lastCall' \in {"rejected", "rejectedInitial", "rejectedNextPage"}

\* C13: no trigger invocation throws; one that fails leaves the failure in
\* error (of a mounted hook), and a trigger that returns a value returns its
\* sentinel exactly when the invocation failed.
C13_TriggersNeverThrow ==
    [][/\ returned' # "threw"
       /\ FailedInvocation /\ isMounted => error' # Null
       /\ ( /\ hook \in MutationHooks \ {"useSubscribe"}
            /\ FailedInvocation \/ lastCall' = "resolved" )
          => (returned' \in {"null", "false"} <=> FailedInvocation)]_vars

C13_Witness ==
    /\ hook = "useUpdateEntry"
    /\ lastCall = "updateEntry"
    /\ entryId = Undefined
    /\ returned = "null"
    /\ error = EntryIdRequired

\* the identifiers the read hook needs are present after the step
IdentifiersPresent ==
    /\ hook = "useProjects" \/ projectId' # Undefined
    /\ hook = "useChangelogEntry" => entryId' # Undefined

\* the step is a mount, a refetch() call or a change of a fetch dependency
FetchTrigger ==
    \/ lastCall' \in {"mount", "refetch"}
    \/ <<projectId, entryId, page, search>>' # <<projectId, entryId, page, search>>

\* C19: an offset-list or single-item hook that is not skipped and has its
\* identifiers dispatches exactly one request on mount, on each change of a
\* fetch dependency and on each refetch(), and none on any other step: a
\* failed request is not re-attempted.
C19_OneRequestPerTrigger ==
    [][(hook \in ReadHooks) =>
          /\ (FetchTrigger /\ ~skip' /\ IdentifiersPresent)
                => Cardinality(Dispatched) = 1
          /\ (~FetchTrigger => Dispatched = {})]_vars

C19_Witness ==
    /\ hook \in ReadHooks
    /\ lastCall = "rejected"
    /\ error # Null
    /\ nextId = 3
    /\ inflight = {}

\* --------------------------------------------------- claims on loading flags
\* C29: while a mounted read hook has a request in flight, its loading flag
\* (isLoading, or isLoadingMore of useChangelog) is true.
C29_LoadingWhileInFlight ==
    (hook \in ReadHooks \cup {"useChangelog"} /\ phase = "live" /\ inflight # {})
    => (isLoading \/ isLoadingMore)

\* C30: a mounted read hook that is not skipped and has no request in flight
\* is not loading, whether or not its identifiers are present.
C30_IdleIsNotLoading ==
    (hook \in ReadHooks \cup {"useChangelog"} /\ phase = "live" /\ ~skip /\ inflight = {})
    => ~isLoading

\* ----------------------------------------------------------- claims on pages
\* n clamped into [1, totalPages], 1 while totalPages is not known
Clamped(n, knownPages) ==
    IF knownPages = 0 \/ n < 1 THEN 1
    ELSE IF n > knownPages THEN knownPages ELSE n

\* C24 as stated: goToPage(n) sets page to n clamped into [1, totalPages] (1
\* while totalPages is 0), and no request at all carries a page outside
\* [1, max(1, totalPages)] as known when it is dispatched.
C24_NoRequestOutOfRange ==
    [][(hook \in ListHooks) =>
          /\ \A n \in PageArgs :
                lastCall' = GoToPageCall(n) => page' = Clamped(n, totalPages)
          /\ \A req \in Dispatched : req.page \in 1..Max(1, totalPages)]_vars

\* C24 amended: goToPage(n) sets page to n clamped into [1, totalPages] (1
\* while totalPages is 0), and the request a goToPage call dispatches carries
\* a page in [1, max(1, totalPages)] as known at the call.
C24_GoToPageClamps ==
    [][(hook \in ListHooks) =>
          \A n \in PageArgs :
             lastCall' = GoToPageCall(n) =>
                /\ page' = Clamped(n, totalPages)
                /\ \A req \in Dispatched :
                      req.page = page' /\ req.page \in 1..Max(1, totalPages)]_vars

C24_Witness ==
    /\ hook \in ListHooks
    /\ lastCall = GoToPageCall(ServerPages + 1)
    /\ totalPages = ServerPages
    /\ page = ServerPages
    /\ \E req \in inflight : req.page = ServerPages

\* --------------------------------------------------- claims on getWidgetScript
\* the params fields and the query parameter each one becomes
WidgetFields == {<<"theme", "theme">>, <<"position", "position">>,
                 <<"maxHeight", "maxHeight">>, <<"isPopup", "popup">>,
                 <<"trigger", "trigger">>, <<"maxEntries", "maxEntries">>}

Supplied(params, field) ==
    IF field = "maxEntries" THEN params.maxEntries # NoNumber
    ELSE params[field] # Undefined

\* C21: getWidgetScript issues no request, and a query parameter is in the
\* script URL exactly when its field was supplied.
C21_ParameterIffSupplied ==
    errStage = "scripted" =>
       /\ inflight = {}
       /\ \A f \in WidgetFields :
             (\E i \in 1..Len(script) : script[i].name = f[2])
                <=> Supplied(widgetParams, f[1])

\* ------------------------------------------------------ claims on useTagFilter
\* C22 as stated: in either mode and from any selection, a second
\* toggleTag(id) right after a first one gives back the set of selected ids
\* there was before the first.
C22_ToggleTwiceRestores ==
    [][\A id \in TagIds :
          lastCall' = TagCall("toggleTag", id) =>
             Range(toggleTag(selectedTags', id, multiSelect)) = Range(selectedTags)]_vars

\* C22 amended: the same in multi-select mode, and in single-select mode
\* when no id other than the toggled one is selected.
C22_ToggleTwiceRestoresUnlessReplaced ==
    [][\A id \in TagIds :
          ( /\ lastCall' = TagCall("toggleTag", id)
            /\ multiSelect \/ Range(selectedTags) \subseteq {id} )
          => Range(toggleTag(selectedTags', id, multiSelect)) = Range(selectedTags)]_vars

C22_Witness ==
    /\ hook = "useTagFilter"
    /\ lastCall = TagCall("toggleTag", "t1")
    /\ multiSelect
    /\ Range(selectedTags) = {"t2"}

\* C23: toggleTag(id) removes a selected id; it adds an unselected id to the
\* selection in multi-select mode and makes it the whole selection in
\* single-select mode; no operation of the hook dispatches a request.
C23_ToggleAddsOrRemoves ==
    [][(hook = "useTagFilter") =>
          /\ inflight' = {} /\ nextId' = nextId
          /\ \A id \in TagIds :
                lastCall' = TagCall("toggleTag", id) =>
                   Range(selectedTags') =
                      IF id \in Range(selectedTags) THEN Range(selectedTags) \ {id}
                      ELSE IF multiSelect THEN Range(selectedTags) \cup {id}
                      ELSE {id}]_vars

C23_Witness ==
    /\ hook = "useTagFilter"
    /\ lastCall = TagCall("toggleTag", "t3")
    /\ ~multiSelect
    /\ selectedTags = <<"t3">>

\* ------------------------------------------------ claims on ChangerawrProvider
\* C25: the provider calls the client constructor only on mount and when
\* apiUrl, apiKey, the auth token or timeout changes; setProjectId calls it
\* never and leaves the client reference as it is.
C25_ConstructsOnlyOnTransportChange ==
    [][(hook = "ChangerawrProvider") =>
          /\ (nextId' # nextId \/ clientRef' # clientRef)
                => (phase = "idle" \/ EffectDeps(config') # EffectDeps(config))
          /\ lastCall' = "setProjectId" => (nextId' = nextId /\ clientRef' = clientRef)]_vars

C25_Witness ==
    /\ hook = "ChangerawrProvider"
    /\ lastCall = "setProjectId"
    /\ clientRef # NoClient
    /\ clientRef.config.projectId # projectId

\* C26: when the constructor throws inside the provider the provider stays
\* rendered with its children, and the context's error is the thrown value
\* if that is a ChangerawrError, else a ChangerawrError with the thrown value
\* as its cause.
C26_ConstructorFailureIsStored ==
    [][(hook = "ChangerawrProvider" /\ nextId' # nextId /\ errStage' = "threw") =>
          /\ phase' = "live"
          /\ clientRef' = clientRef
          /\ contextValue'.error = error'
          /\ IF IsChangerawrError(failure')
             THEN error' = failure'
             ELSE /\ IsChangerawrError(error')
                  /\ error'.cause = failure'.ref
                  /\ error'.message = "Failed to initialize Changerawr client"]_vars

C26_Witness ==
    /\ hook = "ChangerawrProvider"
    /\ errStage = "threw"
    /\ IsChangerawrError(failure)
    /\ contextValue.error = failure
    /\ phase = "live"

\* C28: once the provider is mounted and the last construction succeeded, the
\* client of the context is non-null and was constructed from the current
\* apiUrl, apiKey, auth token and timeout.
C28_ContextClientIsCurrent ==
    (hook = "ChangerawrProvider" /\ phase = "live" /\ errStage = "constructed")
    => /\ contextValue.client # NoClient
       /\ EffectDeps(contextValue.client.config) = EffectDeps(config)

\* ------------------------------------------------- claims on SubscriptionForm
\* C27: a submission with a non-empty email that ends calls onSuccess once
\* and onError not at all when the subscription succeeded, and onError once
\* and onSuccess not at all when it failed.
SubmissionEnds ==
    /\ hook = "useSubscribe"
    /\ \/ lastCall' \in {"resolved", "rejected"}
       \/ lastCall' = "submit" /\ email # "" /\ nextId' = nextId

C27_CallbackMatchesOutcome ==
    [][SubmissionEnds =>
          IF error' = Null
          THEN onSuccessCalls' = onSuccessCalls + 1 /\ onErrorCalls' = onErrorCalls
          ELSE onErrorCalls' = onErrorCalls + 1 /\ onSuccessCalls' = onSuccessCalls]_vars

\* ---------------------------------------------- claims on mutation primitives
\* C31: in every mutation primitive, whatever triggers, completions and
\* resets happened, isSuccess = true and error # null never hold together.
C31_NeverSuccessAndError ==
    (hook \in MutationHooks) => ~(isSuccess /\ error # Null)

\* C32: after reset() every state field of a mutation primitive holds its
\* initial value, and keeps it until the trigger is next invoked, also when
\* an invocation started before the reset completes after it.
MutationInitialState ==
    /\ data = NoData /\ isLoading = FALSE /\ isSuccess = FALSE
    /\ error = Null /\ message = Null /\ recipientCount = NoCount

C32_ResetHoldsUntilNextTrigger ==
    [][(hook \in MutationHooks) =>
          /\ lastCall' = "reset" => MutationInitialState'
          /\ (lastCall = "reset" /\ lastCall' \notin Triggers \cup {"unsubscribe('')"})
                => MutationInitialState']_vars

\* C33: in single-select mode a selection of at most one id stays a selection
\* of at most one id under toggleTag, selectTag, unselectTag, selectAllTags
\* and clearTags, and selectAllTags changes nothing in that mode. (multiSelect
\* is fixed for a behaviour, so this step property carries the bound from the
\* initial selection to every later one.)
C33_SingleSelectHoldsAtMostOne ==
    [][(hook = "useTagFilter" /\ ~multiSelect /\ Cardinality(Range(selectedTags)) <= 1) =>
          /\ ~multiSelect'
          /\ Cardinality(Range(selectedTags')) <= 1
          /\ lastCall' = "selectAllTags" => selectedTags' = selectedTags]_vars

C33_Witness ==
    /\ hook = "useTagFilter"
    /\ ~multiSelect
    /\ lastCall = "selectAllTags"
    /\ Cardinality(Range(selectedTags)) = 1

\* ------------------------------------------------- claims on useWidgetScript
\* C34: with projectId and the option values constant, a render the hook's
\* own state change caused issues no further getWidgetScript call, so the
\* calls stay those of the mount and the hook comes to rest.
C34_RenderDoesNotRetrigger ==
    [][(hook = "useWidgetScript" /\ phase = "live" /\ lastCall' = "render")
          => nextId' = nextId]_vars

\* ------------------------------------------------- claims on auto-loading
\* C35: in useChangelog with enableAutoLoad on and no manual fetchNextPage or
\* refetch, at most one request is in flight at any time, directly after a
\* mount with an initialCursor included.
C35_AutoLoadOneInFlight ==
    (hook = "useChangelog" /\ enableAutoLoad) => Cardinality(inflight) <= 1

\* ------------------------------------------ claims on the provider's error
\* C36: the context's error is non-null only if the most recent construction
\* attempt failed: once a construction has succeeded, error is null, without
\* a call of clearError.
C36_ErrorOnlyAfterFailedConstruction ==
    (hook = "ChangerawrProvider" /\ phase = "live" /\ errStage = "constructed")
    => (error = NoValue /\ contextValue.error = NoValue)

====
